---- MODULE Spec2Model ----
(***************************************************************************)
(* Mesh-analysis circuit solver (src/main.py): interactive input           *)
(* collection, construction of the resistance matrix and of the resistor   *)
(* registry, the linear solve, calcular_potencia and the final report.     *)
(*                                                                         *)
(* Numbers.  The program works on floats; the model works on exact         *)
(* integers.  The solution of R*I = V is kept as integer numerators over   *)
(* one common positive denominator (Cramer's rule), so a mesh current is   *)
(* corrientes_malla[k] / denominador, a reported current is its 'val' over *)
(* denominador and a reported power is its 'val' over denominador^2.       *)
(* Signs, zero tests, sums, differences and comparisons of such values are *)
(* those of their numerators.                                              *)
(***************************************************************************)
EXTENDS Integers, Sequences, FiniteSets, TLC

VARIABLES pc, entrada, N, i, j, num_r_propias, suma_r_propias,
          vector_V, matriz_R, resistencias, registrados,
          aceptadas, corrientes_malla, denominador, resultados_potencia,
          tabla_R_data, potencia_total, salida

vars == <<pc, entrada, N, i, j, num_r_propias, suma_r_propias,
          vector_V, matriz_R, resistencias, registrados,
          aceptadas, corrientes_malla, denominador, resultados_potencia,
          tabla_R_data, potencia_total, salida>>

\* ------------------------------------------------------------ bounds
\* Largest mesh count typed at the first prompt.
MaxN == 2
\* Largest number of exclusive resistors typed for one mesh.
MaxProp == 1
\* Longest registry handed to calcular_potencia on its own.
MaxRes == 2

\* ------------------------------------------------------------ values
Abs(x) == IF x < 0 THEN -x ELSE x

\* A Python value that is a number, and one that is a str.
Num(x) == [tipo |-> "num", val |-> x]
Str(s) == [tipo |-> "str", val |-> s]

\* What the user types at a prompt: an integer literal ("2"), a literal
\* with a decimal point ("2.0") or text that is no number ("abc").
Tok(k, v) == [kind |-> k, val |-> v]
BadTok == Tok("bad", 0)

\* int(input(...)): only an integer literal parses.
IntOk(tok) == tok.kind = "int"
\* float(input(...)): both numeric literals parse.
FloatOk(tok) == tok.kind \in {"int", "dec"}

\* The tokens tried at each prompt.
EntradasN == {Tok("int", n) : n \in -1..MaxN} \cup {Tok("dec", 2), BadTok}
EntradasV == {Tok("int", 0), Tok("int", 2), Tok("dec", 2), BadTok}
EntradasNum == {Tok("int", n) : n \in -1..MaxProp} \cup {Tok("dec", 1), BadTok}
EntradasR == {Tok("int", -1), Tok("int", 2), BadTok}
EntradasComp == {Tok("int", -1), Tok("int", 0), Tok("int", 2), Tok("dec", 2), BadTok}

\* ------------------------------------------------------------ dict
\* A Python dict in insertion order: a sequence of [nombre, info] with
\* distinct names.  d[nombre] = info replaces in place or appends.
Claves(d) == {d[k].nombre : k \in 1..Len(d)}

DictPut(d, nombre, info) ==
    IF nombre \in Claves(d)
    THEN [k \in 1..Len(d) |->
            IF d[k].nombre = nombre THEN [nombre |-> nombre, info |-> info] ELSE d[k]]
    ELSE Append(d, [nombre |-> nombre, info |-> info])

\* f'R{i+1}_p{j+1}' and f'R_c{i+1}-{j+1}'
NombrePropia(a, b) == <<"R_p", a + 1, b + 1>>
NombreCompartida(a, b) == <<"R_c", a + 1, b + 1>>

\* ------------------------------------------------------------ matrix
Rango(n) == 0..(n - 1)

\* np.zeros((N, N)) and np.zeros(N)
Zeros2(n) == [p \in Rango(n) \X Rango(n) |-> 0]
Zeros1(n) == [k \in Rango(n) |-> 0]

\* matriz_R[i, i] = suma_r_propias
AsignarDiagonal(M, a, s) == [M EXCEPT ![<<a, a>>] = s]

\* Faulty variant of AgregarCompartida: the mirrored entry is not written.
AgregarCompartida_sinEspejo(M, a, b, r) ==
    [M EXCEPT ![<<a, a>>] = @ + r, ![<<b, b>>] = @ + r, ![<<a, b>>] = -r]

\* Faulty variant of AgregarCompartida: the diagonal is assigned, not accumulated.
AgregarCompartida_asigna(M, a, b, r) ==
    [M EXCEPT ![<<a, a>>] = r, ![<<b, b>>] = r, ![<<a, b>>] = -r, ![<<b, a>>] = -r]

\* The four matrix updates of one shared resistor.
AgregarCompartida(M, a, b, r) ==
    [M EXCEPT ![<<a, a>>] = @ + r, ![<<b, b>>] = @ + r,
              ![<<a, b>>] = -r, ![<<b, a>>] = -r]

\* ------------------------------------------------------------ solve
QuitarPos(s, k) == [m \in 1..(Len(s) - 1) |-> IF m < k THEN s[m] ELSE s[m + 1]]

RECURSIVE DetSub(_, _, _)
RECURSIVE DetFila(_, _, _, _)
\* Laplace expansion along the first of `filas`, columns k..Len(cols).
DetFila(M, filas, cols, k) ==
    IF k > Len(cols) THEN 0
    ELSE (IF k % 2 = 1 THEN 1 ELSE -1) * M[<<filas[1], cols[k]>>]
            * DetSub(M, Tail(filas), QuitarPos(cols, k))
         + DetFila(M, filas, cols, k + 1)
DetSub(M, filas, cols) ==
    IF Len(filas) = 0 THEN 1 ELSE DetFila(M, filas, cols, 1)

Indices(n) == [k \in 1..n |-> k - 1]
Det(M, n) == DetSub(M, Indices(n), Indices(n))

\* M with column k replaced by V.
ConColumna(M, k, V) == [p \in DOMAIN M |-> IF p[2] = k THEN V[p[1]] ELSE M[p]]

\* Faulty variant of Singular: the solve never raises.
Singular_nunca(M, n) == FALSE

\* np.linalg.solve raises LinAlgError on a singular matrix.
Singular(M, n) == Det(M, n) = 0

\* The solution of M*I = V by Cramer's rule, as numerators over the
\* positive denominator |det M|.
SolveDen(M, n) == Abs(Det(M, n))
SolveNum(M, V, n) ==
    [k \in Rango(n) |->
        (IF Det(M, n) < 0 THEN -1 ELSE 1) * Det(ConColumna(M, k, V), n)]

\* ------------------------------------------------------------ calcular_potencia
\* corrientes_malla[k] on a numpy array: 0..n-1 index from the front,
\* -n..-1 from the back, anything else raises IndexError.
EnRango(c, k) == k >= -Cardinality(DOMAIN c) /\ k < Cardinality(DOMAIN c)
Indexar(c, k) == IF k >= 0 THEN c[k] ELSE c[k + Cardinality(DOMAIN c)]

\* The mesh indices an entry reads, in the order the code reads them.
IndicesDe(info) ==
    IF "malla" \in DOMAIN info THEN <<info.malla>> ELSE info.mallas

\* The current through the resistor before np.abs.
CorrienteResistor(info, c) ==
    IF "malla" \in DOMAIN info
    THEN Indexar(c, info.malla)
    ELSE Indexar(c, info.mallas[1]) - Indexar(c, info.mallas[2])

\* str(e) of the IndexError of the first index that is out of bounds.
MensajeError(info, c) ==
    LET idx == IndicesDe(info)
        k == CHOOSE m \in 1..Len(idx) :
                /\ ~EnRango(c, idx[m])
                /\ \A q \in 1..(m - 1) : EnRango(c, idx[q])
    IN <<"Error: index out of bounds", idx[k], Cardinality(DOMAIN c)>>

\* Faulty variant of ResultadoDe: a shared resistor's current is the sum of the
\* two mesh currents.
ResultadoDe_suma(info, c) ==
    IF \A m \in 1..Len(IndicesDe(info)) : EnRango(c, IndicesDe(info)[m])
    THEN LET raw == IF "malla" \in DOMAIN info
                    THEN Indexar(c, info.malla)
                    ELSE Indexar(c, info.mallas[1]) + Indexar(c, info.mallas[2])
         IN [R |-> info.valor, corriente |-> Num(Abs(raw)),
             potencia |-> Num(raw * raw * info.valor)]
    ELSE [R |-> info.valor, corriente |-> Str("ERROR"),
          potencia |-> Str(MensajeError(info, c))]

\* One iteration of the loop: the entry stored under the resistor's name
\* ('Corriente (A)' is corriente, 'Potencia (W)' is potencia).
ResultadoDe(info, c) ==
    IF \A m \in 1..Len(IndicesDe(info)) : EnRango(c, IndicesDe(info)[m])
    THEN LET raw == CorrienteResistor(info, c)
         IN [R |-> info.valor, corriente |-> Num(Abs(raw)),
             potencia |-> Num(raw * raw * info.valor)]
    ELSE [R |-> info.valor, corriente |-> Str("ERROR"),
          potencia |-> Str(MensajeError(info, c))]

RECURSIVE CalcularDesde(_, _, _, _)
CalcularDesde(res, c, k, acc) ==
    IF k > Len(res) THEN acc
    ELSE CalcularDesde(res, c, k + 1,
                       DictPut(acc, res[k].nombre, ResultadoDe(res[k].info, c)))

calcular_potencia(res, c) == CalcularDesde(res, c, 1, <<>>)

\* ------------------------------------------------------------ report
\* f"{x:.4f}": a number formats, a str raises ValueError.
Formatea(x) == x.tipo = "num"

\* One row of tabla_R_data formats when both of its :.4f fields do.
FilaFormatea(d) == Formatea(d.info.corriente) /\ Formatea(d.info.potencia)

\* The rows appended before the loop ends or raises.
RECURSIVE FilasDesde(_, _)
FilasDesde(rp, k) ==
    IF k > Len(rp) \/ ~FilaFormatea(rp[k]) THEN <<>>
    ELSE <<rp[k]>> \o FilasDesde(rp, k + 1)

\* isinstance(d['Potencia (W)'], (int, float))
EsNumero(x) == x.tipo = "num"

RECURSIVE SumaDesde(_, _)
\* Faulty variant of SumaDesde: the sum stops at the first error entry.
SumaDesde_corta(rp, k) ==
    IF k > Len(rp) \/ ~EsNumero(rp[k].info.potencia) THEN 0
    ELSE rp[k].info.potencia.val + SumaDesde(rp, k + 1)

\* sum(... for d in resultados_potencia.values() if isinstance(...))
SumaDesde(rp, k) ==
    IF k > Len(rp) THEN 0
    ELSE (IF EsNumero(rp[k].info.potencia) THEN rp[k].info.potencia.val ELSE 0)
         + SumaDesde(rp, k + 1)

PotenciaTotal(rp) == SumaDesde(rp, 1)

\* ------------------------------------------------------------ state
\* pc: the prompt the program waits at, or the step it is about to take.
\*   "N" "fuentes" "numPropias" "rPropia" "compartida": the input() calls;
\*   "resolver" "calcular" "tablaI" "tablaR" "total": the steps after input;
\*   "agregar": the total taken straight from calcular_potencia's result;
\*   "fin": main has returned.
\* entrada: the token the last input() returned.
\* i, j: the positions of the loops in progress (0 when none is).
\* registrados: every registration made, in order (a log, never read).
\* aceptadas: how many mesh configurations were completed and how many
\*   shared-resistor inputs were accepted (counters, never read).
\* salida: what has been printed, as tags.

SinAsignar == [tipo |-> "none", val |-> 0]
SinToken == Tok("none", 0)

Init ==
    /\ pc = "N"
    /\ entrada = SinToken
    /\ N = 0
    /\ i = 0
    /\ j = 0
    /\ num_r_propias = 0
    /\ suma_r_propias = 0
    /\ vector_V = <<>>
    /\ matriz_R = <<>>
    /\ resistencias = <<>>
    /\ registrados = <<>>
    /\ aceptadas = [mallas |-> 0, compartidas |-> 0]
    /\ corrientes_malla = <<>>
    /\ denominador = 1
    /\ resultados_potencia = <<>>
    /\ tabla_R_data = <<>>
    /\ potencia_total = SinAsignar
    /\ salida = <<>>

\* Faulty variant of TrasValueError: the handler prints and does not return, so
\* the program stays at the prompt.
TrasValueError_sigue(p) == p

\* except ValueError: print(...); return
TrasValueError(p) == "fin"

\* Where the program goes once mesh a is configured: the next mesh, the
\* first pair of the shared-resistor loops, or the solve when N = 1.
TrasMalla(a, n) ==
    IF a + 1 < n THEN [pc |-> "fuentes", i |-> a + 1, j |-> 0]
    ELSE IF n >= 2 THEN [pc |-> "compartida", i |-> 0, j |-> 1]
    ELSE [pc |-> "resolver", i |-> 0, j |-> 0]

\* The pair after (a, b) in for i in range(N): for j in range(i + 1, N).
TrasPar(a, b, n) ==
    IF b + 1 < n THEN [pc |-> "compartida", i |-> a, j |-> b + 1]
    ELSE IF a + 2 < n THEN [pc |-> "compartida", i |-> a + 1, j |-> a + 2]
    ELSE [pc |-> "resolver", i |-> 0, j |-> 0]

\* N = int(input(...)), the check N <= 0 and the initialisations.
LeerN ==
    /\ pc = "N"
    /\ \E tok \in EntradasN :
        /\ entrada' = tok
        /\ IF ~IntOk(tok)
           THEN /\ pc' = TrasValueError(pc)
                /\ salida' = Append(salida, "Error: Entrada no valida")
                /\ UNCHANGED <<N, matriz_R, vector_V>>
           ELSE IF tok.val <= 0
           THEN /\ pc' = "fin"
                /\ N' = tok.val
                /\ salida' = Append(salida, "Error: El numero de mallas debe ser positivo")
                /\ UNCHANGED <<matriz_R, vector_V>>
           ELSE /\ pc' = "fuentes"
                /\ N' = tok.val
                /\ matriz_R' = Zeros2(tok.val)
                /\ vector_V' = Zeros1(tok.val)
                /\ UNCHANGED salida
    /\ UNCHANGED <<i, j, num_r_propias, suma_r_propias, resistencias, registrados,
                   aceptadas, corrientes_malla, denominador, resultados_potencia,
                   tabla_R_data, potencia_total>>

\* v_fuentes = float(input(...)); vector_V[i] = v_fuentes
LeerFuentes ==
    /\ pc = "fuentes"
    /\ \E tok \in EntradasV :
        /\ entrada' = tok
        /\ IF ~FloatOk(tok)
           THEN /\ pc' = TrasValueError(pc)
                /\ salida' = Append(salida, "Error: Entrada no valida")
                /\ UNCHANGED vector_V
           ELSE /\ pc' = "numPropias"
                /\ vector_V' = [vector_V EXCEPT ![i] = tok.val]
                /\ UNCHANGED salida
    /\ UNCHANGED <<N, i, j, num_r_propias, suma_r_propias, matriz_R, resistencias,
                   registrados, aceptadas, corrientes_malla, denominador,
                   resultados_potencia, tabla_R_data, potencia_total>>

\* num_r_propias = int(input(...)); suma_r_propias = 0; an empty range
\* goes straight to matriz_R[i, i] = suma_r_propias.
LeerNumPropias ==
    /\ pc = "numPropias"
    /\ \E tok \in EntradasNum :
        /\ entrada' = tok
        /\ IF ~IntOk(tok)
           THEN /\ pc' = TrasValueError(pc)
                /\ salida' = Append(salida, "Error: Entrada no valida")
                /\ UNCHANGED <<i, j, num_r_propias, suma_r_propias, matriz_R, aceptadas>>
           ELSE IF tok.val <= 0
           THEN /\ num_r_propias' = tok.val
                /\ suma_r_propias' = 0
                /\ matriz_R' = AsignarDiagonal(matriz_R, i, 0)
                /\ aceptadas' = [aceptadas EXCEPT !.mallas = @ + 1]
                /\ pc' = TrasMalla(i, N).pc
                /\ i' = TrasMalla(i, N).i
                /\ j' = TrasMalla(i, N).j
                /\ UNCHANGED salida
           ELSE /\ num_r_propias' = tok.val
                /\ suma_r_propias' = 0
                /\ j' = 0
                /\ pc' = "rPropia"
                /\ UNCHANGED <<i, matriz_R, aceptadas, salida>>
    /\ UNCHANGED <<N, vector_V, resistencias, registrados, corrientes_malla,
                   denominador, resultados_potencia, tabla_R_data, potencia_total>>

\* r_val = float(input(...)); suma_r_propias += r_val; the registration;
\* after the last one, matriz_R[i, i] = suma_r_propias.
LeerRPropia ==
    /\ pc = "rPropia"
    /\ \E tok \in EntradasR :
        /\ entrada' = tok
        /\ IF ~FloatOk(tok)
           THEN /\ pc' = TrasValueError(pc)
                /\ salida' = Append(salida, "Error: Entrada no valida")
                /\ UNCHANGED <<i, j, suma_r_propias, matriz_R, resistencias,
                               registrados, aceptadas>>
           ELSE LET info == [valor |-> tok.val, malla |-> i]
                    nombre == NombrePropia(i, j)
                IN /\ suma_r_propias' = suma_r_propias + tok.val
                   /\ resistencias' = DictPut(resistencias, nombre, info)
                   /\ registrados' = Append(registrados, [nombre |-> nombre, info |-> info])
                   /\ IF j + 1 < num_r_propias
                      THEN /\ j' = j + 1
                           /\ pc' = "rPropia"
                           /\ UNCHANGED <<i, matriz_R, aceptadas>>
                      ELSE /\ matriz_R' = AsignarDiagonal(matriz_R, i, suma_r_propias + tok.val)
                           /\ aceptadas' = [aceptadas EXCEPT !.mallas = @ + 1]
                           /\ pc' = TrasMalla(i, N).pc
                           /\ i' = TrasMalla(i, N).i
                           /\ j' = TrasMalla(i, N).j
                   /\ UNCHANGED salida
    /\ UNCHANGED <<N, num_r_propias, vector_V, corrientes_malla, denominador,
                   resultados_potencia, tabla_R_data, potencia_total>>

\* r_comp = float(input(...)); if r_comp > 0: the matrix updates and the
\* registration.
LeerCompartida ==
    /\ pc = "compartida"
    /\ \E tok \in EntradasComp :
        /\ entrada' = tok
        /\ IF ~FloatOk(tok)
           THEN /\ pc' = TrasValueError(pc)
                /\ salida' = Append(salida, "Error: Entrada no valida")
                /\ UNCHANGED <<i, j, matriz_R, resistencias, registrados, aceptadas>>
           ELSE /\ IF tok.val > 0
                   THEN LET info == [valor |-> tok.val, mallas |-> <<i, j>>]
                            nombre == NombreCompartida(i, j)
                        IN /\ matriz_R' = AgregarCompartida(matriz_R, i, j, tok.val)
                           /\ resistencias' = DictPut(resistencias, nombre, info)
                           /\ registrados' =
                                Append(registrados, [nombre |-> nombre, info |-> info])
                   ELSE UNCHANGED <<matriz_R, resistencias, registrados>>
                /\ aceptadas' = [aceptadas EXCEPT !.compartidas = @ + 1]
                /\ pc' = TrasPar(i, j, N).pc
                /\ i' = TrasPar(i, j, N).i
                /\ j' = TrasPar(i, j, N).j
                /\ UNCHANGED salida
    /\ UNCHANGED <<N, num_r_propias, suma_r_propias, vector_V, corrientes_malla,
                   denominador, resultados_potencia, tabla_R_data, potencia_total>>

\* corrientes_malla = np.linalg.solve(matriz_R, vector_V), and the
\* except np.linalg.LinAlgError branch.
Resolver ==
    /\ pc = "resolver"
    /\ IF Singular(matriz_R, N)
       THEN /\ pc' = "fin"
            /\ salida' = Append(salida, "ERROR: Sistema Indeterminado")
            /\ UNCHANGED <<corrientes_malla, denominador>>
       ELSE /\ pc' = "calcular"
            /\ corrientes_malla' = SolveNum(matriz_R, vector_V, N)
            /\ denominador' = SolveDen(matriz_R, N)
            /\ UNCHANGED salida
    /\ UNCHANGED <<entrada, N, i, j, num_r_propias, suma_r_propias, vector_V, matriz_R,
                   resistencias, registrados, aceptadas, resultados_potencia,
                   tabla_R_data, potencia_total>>

\* resultados_potencia = calcular_potencia(resistencias, corrientes_malla)
LlamarCalcular ==
    /\ pc = "calcular"
    /\ resultados_potencia' = calcular_potencia(resistencias, corrientes_malla)
    /\ pc' = "tablaI"
    /\ UNCHANGED <<entrada, N, i, j, num_r_propias, suma_r_propias, vector_V, matriz_R,
                   resistencias, registrados, aceptadas, corrientes_malla, denominador,
                   tabla_R_data, potencia_total, salida>>

\* The banner and table A, the mesh currents.
ImprimirTablaI ==
    /\ pc = "tablaI"
    /\ salida' = salida \o <<"RESULTADOS DEL ANALISIS", "A. Corrientes de Malla">>
    /\ pc' = "tablaR"
    /\ UNCHANGED <<entrada, N, i, j, num_r_propias, suma_r_propias, vector_V, matriz_R,
                   resistencias, registrados, aceptadas, corrientes_malla, denominador,
                   resultados_potencia, tabla_R_data, potencia_total>>

\* The heading of table B, the loop that formats one row per result and
\* print(tabulate(...)); a row that does not format raises ValueError,
\* which except Exception reports.
ImprimirTablaR ==
    /\ pc = "tablaR"
    /\ tabla_R_data' = FilasDesde(resultados_potencia, 1)
    /\ IF \A k \in 1..Len(resultados_potencia) : FilaFormatea(resultados_potencia[k])
       THEN /\ salida' = salida \o <<"B. Resultados por Componente", "tabla B">>
            /\ pc' = "total"
       ELSE /\ salida' = salida \o <<"B. Resultados por Componente",
                                     "Ha ocurrido un error inesperado">>
            /\ pc' = "fin"
    /\ UNCHANGED <<entrada, N, i, j, num_r_propias, suma_r_propias, vector_V, matriz_R,
                   resistencias, registrados, aceptadas, corrientes_malla, denominador,
                   resultados_potencia, potencia_total>>

\* potencia_total = sum(...), and the total-power line.
ImprimirTotal ==
    /\ pc = "total"
    /\ potencia_total' = Num(PotenciaTotal(resultados_potencia))
    /\ salida' = salida \o <<"C. Potencia Total", "Potencia Total Disipada">>
    /\ pc' = "fin"
    /\ UNCHANGED <<entrada, N, i, j, num_r_propias, suma_r_propias, vector_V, matriz_R,
                   resistencias, registrados, aceptadas, corrientes_malla, denominador,
                   resultados_potencia, tabla_R_data>>

Next ==
    \/ LeerN
    \/ LeerFuentes
    \/ LeerNumPropias
    \/ LeerRPropia
    \/ LeerCompartida
    \/ Resolver
    \/ LlamarCalcular
    \/ ImprimirTablaI
    \/ ImprimirTablaR
    \/ ImprimirTotal

\* main(), from its first prompt.
Spec == Init /\ [][Next]_vars

\* ------------------------------------------------------------ the report on any registry
\* calcular_potencia takes any registry and any mesh-current vector.  The
\* entries tried: both topologies, indices inside the vector, negative
\* and past its end.
ValoresEntrada == {1, 2}
IndicesEntrada == {-3, -1, 0, 1}
InfoEntrada ==
    {[valor |-> r, malla |-> a] : r \in ValoresEntrada, a \in IndicesEntrada}
    \cup {[valor |-> r, mallas |-> <<a, b>>] :
            r \in ValoresEntrada, a \in IndicesEntrada, b \in IndicesEntrada}
\* The registry that holds the entries f[1], ..., f[n] under n names.
RegistroDe(f, n) == [k \in 1..n |-> [nombre |-> <<"R", k>>, info |-> f[k]]]
CorrientesEntrada ==
    {[k \in Rango(1) |-> 2],
     [k \in Rango(2) |-> IF k = 0 THEN -1 ELSE 2],
     [k \in Rango(2) |-> IF k = 0 THEN 3 ELSE 1]}

InitEntradas(p) ==
    /\ pc = p
    /\ entrada = SinToken
    /\ \E n \in 0..MaxRes : \E f \in [1..n -> InfoEntrada] :
            resistencias = RegistroDe(f, n)
    /\ registrados = resistencias
    /\ corrientes_malla \in CorrientesEntrada
    /\ N = Cardinality(DOMAIN corrientes_malla)
    /\ denominador = 1
    /\ i = 0
    /\ j = 0
    /\ num_r_propias = 0
    /\ suma_r_propias = 0
    /\ vector_V = <<>>
    /\ matriz_R = <<>>
    /\ aceptadas = [mallas |-> 0, compartidas |-> 0]
    /\ resultados_potencia = <<>>
    /\ tabla_R_data = <<>>
    /\ potencia_total = SinAsignar
    /\ salida = <<>>

\* The body of main's try block from the call of calcular_potencia on.
InitInforme == InitEntradas("calcular")
NextInforme ==
    \/ LlamarCalcular
    \/ ImprimirTablaI
    \/ ImprimirTablaR
    \/ ImprimirTotal
SpecInforme == InitInforme /\ [][NextInforme]_vars

\* calcular_potencia's result handed straight to the total.
ResolverComponentes ==
    /\ pc = "componentes"
    /\ resultados_potencia' = calcular_potencia(resistencias, corrientes_malla)
    /\ pc' = "agregar"
    /\ UNCHANGED <<entrada, N, i, j, num_r_propias, suma_r_propias, vector_V, matriz_R,
                   resistencias, registrados, aceptadas, corrientes_malla, denominador,
                   tabla_R_data, potencia_total, salida>>

AgregarPotencia ==
    /\ pc = "agregar"
    /\ potencia_total' = Num(PotenciaTotal(resultados_potencia))
    /\ pc' = "fin"
    /\ UNCHANGED <<entrada, N, i, j, num_r_propias, suma_r_propias, vector_V, matriz_R,
                   resistencias, registrados, aceptadas, corrientes_malla, denominador,
                   resultados_potencia, tabla_R_data, salida>>

InitAgregador == InitEntradas("componentes")
NextAgregador == ResolverComponentes \/ AgregarPotencia
SpecAgregador == InitAgregador /\ [][NextAgregador]_vars

\* ============================================================ claims
\* Input collection has completed: the program is at or past the solve.
EntradaCompleta ==
    /\ N >= 1
    /\ aceptadas.mallas = N
    /\ 2 * aceptadas.compartidas = N * (N - 1)
    /\ pc \in {"resolver", "calcular", "tablaI", "tablaR", "total", "fin"}
    /\ \A k \in 1..Len(salida) : salida[k] # "Error: Entrada no valida"

EsPropia(e) == "malla" \in DOMAIN e.info
EsCompartida(e) == "mallas" \in DOMAIN e.info

\* The sum of valor over the entries of res at the positions in S.
RECURSIVE SumaValores(_, _)
SumaValores(res, S) ==
    IF S = {} THEN 0
    ELSE LET k == CHOOSE m \in S : TRUE
         IN res[k].info.valor + SumaValores(res, S \ {k})

PropiasDe(res, a) ==
    {k \in 1..Len(res) : EsPropia(res[k]) /\ res[k].info.malla = a}
CompartidasDe(res, a) ==
    {k \in 1..Len(res) : EsCompartida(res[k])
                          /\ a \in {res[k].info.mallas[1], res[k].info.mallas[2]}}
CompartidasEntre(res, a, b) ==
    {k \in 1..Len(res) : EsCompartida(res[k])
                          /\ {res[k].info.mallas[1], res[k].info.mallas[2]} = {a, b}}

\* C1: in every state, from the creation of the matrix to the solve and
\* after it, the resistance matrix is symmetric: matriz_R[i][j] equals
\* matriz_R[j][i] for all i, j in 0..N-1.
C1_MatrizSimetrica ==
    \A p \in DOMAIN matriz_R : matriz_R[p] = matriz_R[<<p[2], p[1]>>]

\* C1 witness: the solver is about to receive a matrix with a shared
\* resistor between meshes 0 and 1.
C1_Witness ==
    /\ pc = "resolver"
    /\ N >= 2
    /\ matriz_R[<<0, 1>>] < 0
    /\ matriz_R[<<0, 0>>] # matriz_R[<<1, 1>>]

\* C2: once input collection has completed the matrix agrees with the
\* registry: each diagonal entry is the sum of the mesh's exclusive
\* resistors plus the shared resistors that touch the mesh, each
\* off-diagonal entry is minus the shared resistor registered for the pair
\* (0 when none is registered, at most one ever is), and no shared
\* resistor of value 0 is registered.
C2_MatrizSegunRegistro ==
    EntradaCompleta =>
        /\ \A a \in Rango(N) :
             matriz_R[<<a, a>>] = SumaValores(resistencias, PropiasDe(resistencias, a))
                                  + SumaValores(resistencias, CompartidasDe(resistencias, a))
        /\ \A a \in Rango(N) : \A b \in Rango(N) \ {a} :
             /\ Cardinality(CompartidasEntre(resistencias, a, b)) <= 1
             /\ matriz_R[<<a, b>>] =
                  -SumaValores(resistencias, CompartidasEntre(resistencias, a, b))
        /\ \A k \in 1..Len(resistencias) :
             EsCompartida(resistencias[k]) => resistencias[k].info.valor # 0

\* C2 witness: two meshes, mesh 0 with an exclusive and a shared resistor,
\* at the solve.
C2_Witness ==
    /\ pc = "resolver"
    /\ N = 2
    /\ PropiasDe(resistencias, 0) # {}
    /\ CompartidasEntre(resistencias, 0, 1) # {}
    /\ matriz_R[<<0, 0>>] > -matriz_R[<<0, 1>>]

\* The report has the result of calcular_potencia in hand.
Calculado == pc \in {"tablaI", "tablaR", "total", "agregar", "fin"}

\* Every mesh index of the entry is in 0..N-1.
IndicesValidos(e) ==
    IF EsPropia(e) THEN e.info.malla \in Rango(N)
    ELSE e.info.mallas[1] \in Rango(N) /\ e.info.mallas[2] \in Rango(N)

\* I[i] for an exclusive resistor, I[i] - I[j] for a shared one.
CorrienteEsperada(e) ==
    IF EsPropia(e) THEN corrientes_malla[e.info.malla]
    ELSE corrientes_malla[e.info.mallas[1]] - corrientes_malla[e.info.mallas[2]]

\* The result stored for registry entry k is the one the claim describes.
ResultadoNormal(k) ==
    LET e == resistencias[k]
        d == resultados_potencia[k]
        x == CorrienteEsperada(e)
    IN /\ d.nombre = e.nombre
       /\ d.info.R = e.info.valor
       /\ d.info.corriente = Num(Abs(x))
       /\ d.info.potencia = Num(x * x * e.info.valor)

\* C3: calcular_potencia returns one entry per registry entry, in order,
\* under the same name and with the same R; an entry whose indices are in
\* 0..N-1 reports the current |I[i]| (exclusive) or |I[i] - I[j]|
\* (shared) and the power current^2 * R.
C3_CorrienteYPotencia ==
    Calculado =>
        /\ Len(resultados_potencia) = Len(resistencias)
        /\ \A k \in 1..Len(resistencias) :
             /\ resultados_potencia[k].nombre = resistencias[k].nombre
             /\ resultados_potencia[k].info.R = resistencias[k].info.valor
             /\ IndicesValidos(resistencias[k]) => ResultadoNormal(k)

\* C3 witness: a shared resistor whose mesh-current difference is
\* negative and an exclusive resistor were both resolved.
C3_Witness ==
    /\ Calculado
    /\ \E k \in 1..Len(resistencias) :
         /\ EsCompartida(resistencias[k])
         /\ IndicesValidos(resistencias[k])
         /\ CorrienteEsperada(resistencias[k]) < 0
         /\ resultados_potencia[k].info.potencia.val > 0
    /\ \E k \in 1..Len(resistencias) :
         /\ EsPropia(resistencias[k])
         /\ IndicesValidos(resistencias[k])
         /\ CorrienteEsperada(resistencias[k]) < 0

\* C4 (the claim as stated): every power calcular_potencia reports for a
\* registry built by main is non-negative.
C4_PotenciaNoNegativa ==
    \A k \in 1..Len(resultados_potencia) :
        resultados_potencia[k].info.potencia.tipo = "num"
            => resultados_potencia[k].info.potencia.val >= 0

\* Some mesh index of the entry is >= N or negative.
TieneIndiceFuera(e) == ~IndicesValidos(e)

\* An error-marker entry: 'Corriente (A)' is the text ERROR and
\* 'Potencia (W)' is a message.
EsMarcaError(d) ==
    /\ d.info.corriente = Str("ERROR")
    /\ d.info.potencia.tipo = "str"

\* C5 (the claim as stated): a resistor with an index >= N or negative
\* gets an error-marker entry, and every other resistor of the same call
\* gets the current and power it gets on its own.
C5_IndiceFueraDeRango ==
    Calculado =>
        /\ Len(resultados_potencia) = Len(resistencias)
        /\ \A k \in 1..Len(resistencias) :
             IF TieneIndiceFuera(resistencias[k])
             THEN EsMarcaError(resultados_potencia[k])
             ELSE ResultadoNormal(k)

HayMarcaError == \E k \in 1..Len(resultados_potencia) : EsMarcaError(resultados_potencia[k])

EnSalida(t) == \E k \in 1..Len(salida) : salida[k] = t

SinError(rp) == {k \in 1..Len(rp) : rp[k].info.corriente # Str("ERROR")}

RECURSIVE SumaPotenciasEn(_, _)
SumaPotenciasEn(rp, S) ==
    IF S = {} THEN 0
    ELSE LET k == CHOOSE m \in S : TRUE
         IN rp[k].info.potencia.val + SumaPotenciasEn(rp, S \ {k})

C8_RegistroValido ==
    /\ resistencias = registrados
    /\ \A k \in 1..Len(resistencias) :
         LET e == resistencias[k]
         IN /\ e.info.valor > 0
            /\ EsPropia(e) # EsCompartida(e)
            /\ IndicesValidos(e)
            /\ EsCompartida(e) => e.info.mallas[1] # e.info.mallas[2]

\* C9: a run whose resistance matrix is singular ends at the solve with
\* the singular-system diagnostic as its only output: no mesh currents,
\* no component results, no table and no total power.
C9_SistemaSingular ==
    (EntradaCompleta /\ Det(matriz_R, N) = 0) =>
        /\ pc \in {"resolver", "fin"}
        /\ pc = "fin" => salida = <<"ERROR: Sistema Indeterminado">>
        /\ corrientes_malla = <<>>
        /\ resultados_potencia = <<>>
        /\ tabla_R_data = <<>>
        /\ potencia_total = SinAsignar

\* C9 witness: one mesh with no resistance and a non-zero source ended
\* in the singular-system diagnostic.
C9_Witness ==
    /\ pc = "fin"
    /\ N = 1
    /\ matriz_R[<<0, 0>>] = 0
    /\ vector_V[0] # 0
    /\ salida = <<"ERROR: Sistema Indeterminado">>

\* The token parses at the prompt p.
Parsea(p, tok) == IF p \in {"N", "numPropias"} THEN IntOk(tok) ELSE FloatOk(tok)

Prompts == {"N", "fuentes", "numPropias", "rPropia", "compartida"}

\* C10: a step that reads a token that does not parse, or a mesh count
\* <= 0, ends the run there with the diagnostic as the only output and
\* nothing solved or reported; no step follows the end of the run; and
\* the solve is entered only with all N mesh configurations and all
\* N(N-1)/2 shared-resistor inputs accepted.
C10_FailFast ==
    [][/\ (pc \in Prompts /\ ~Parsea(pc, entrada'))
            => /\ pc' = "fin"
               /\ salida' = <<"Error: Entrada no valida">>
               /\ corrientes_malla' = <<>>
               /\ resultados_potencia' = <<>>
               /\ potencia_total' = SinAsignar
               /\ UNCHANGED <<matriz_R, vector_V, resistencias, aceptadas>>
       /\ (pc = "N" /\ IntOk(entrada') /\ entrada'.val <= 0)
            => /\ pc' = "fin"
               /\ salida' = <<"Error: El numero de mallas debe ser positivo">>
               /\ corrientes_malla' = <<>>
               /\ resultados_potencia' = <<>>
       /\ pc # "fin"
       /\ (pc' = "resolver" \/ pc = "resolver")
            => /\ N' >= 1
               /\ aceptadas'.mallas = N'
               /\ 2 * aceptadas'.compartidas = N' * (N' - 1)
               /\ salida = <<>>
      ]_vars

\* C10 witness: a run of two meshes aborted at a shared-resistor value
\* that does not parse, after both mesh configurations were accepted.
C10_Witness ==
    /\ pc = "fin"
    /\ N = 2
    /\ aceptadas.mallas = 2
    /\ aceptadas.compartidas = 0
    /\ entrada = BadTok
    /\ salida = <<"Error: Entrada no valida">>
    /\ corrientes_malla = <<>>

====
